---- MODULE Spec2Model ----
(***************************************************************************)
(* A model of the two chunk-boundary algorithms of chonkie:                *)
(*   - SentenceChunker (src/src/chonkie/chunker/sentence.py)               *)
(*   - CodeChunker     (src/src/chonkie/chunker/code.py)                   *)
(* A text is a sequence of one-character strings, a byte buffer a sequence *)
(* of integers.  The tokenizer and the parser are external oracles: their  *)
(* results are chosen nondeterministically from bounded sets.             *)
(***************************************************************************)
EXTENDS Integers, Sequences, FiniteSets, TLC

VARIABLES
    \* ---- SentenceChunker ----
    sentence_args,      \* the arguments given to __init__ (<<>> before)
    sentence_chunker,   \* the attributes assigned by __init__ (<<>> before)
    spc,                \* position: "new", "config_error", "ready", "loop", "returned"
                        \*   (_split_text alone: "split_call", "split_done")
    text,               \* the argument of chunk()
    sentences,          \* chunk(): the prepared Sentence records
    token_sums,         \* chunk(): prefix sums of the token counts
    chunks,             \* chunk(): the list being returned
    pos,                \* chunk(): the cursor
    spans,              \* history: <<pos, split_idx>> of every emitted chunk
    unmet_warnings,     \* number of unmet-minimum warnings raised
    tokenizer_calls,    \* number of calls of the tokenizer
    \* ---- CodeChunker ----
    code_chunker,       \* the attributes assigned by __init__ (<<>> before)
    cpc,                \* position: "new", "ready", "parsed", "grouped",
                        \*           "texts", "returned", "raised"
    code_text,          \* the argument of chunk()
    original_text_bytes,
    root_node,          \* the tree returned by the parser
    node_groups,
    token_counts,
    texts,
    code_result,        \* what chunk() returns
    parser_calls,       \* number of calls of parser.parse
    count_tokens_calls, \* number of calls of tokenizer.count_tokens
    \* ---- SentenceChunker._split_text called alone ----
    initial_splits,     \* _split_text: splits, the fragments of the initial split
    split_sentences     \* what _split_text returns

svars == <<sentence_args, sentence_chunker, spc, text, sentences, token_sums,
           chunks, pos,
           spans, unmet_warnings, tokenizer_calls>>
cvars == <<code_chunker, cpc, code_text, original_text_bytes, root_node,
           node_groups, token_counts, texts, code_result, parser_calls,
           count_tokens_calls>>
tvars == <<initial_splits, split_sentences>>
vars == <<svars, cvars, tvars>>

-----------------------------------------------------------------------------
\* Bounds of the model.
MaxLen == 3             \* longest input text of SentenceChunker.chunk
MaxTok == 1             \* largest token count the tokenizer gives one sentence
MaxChunkSize == 2       \* largest chunk_size given to SentenceChunker
MaxSentences == 4       \* most sentences given to the packing loop alone
MaxPackTok == 2         \* largest token count of a sentence given to it
MaxPackChunkSize == 3   \* largest chunk_size of the packing loop alone
MaxSplitLen == 5        \* longest text given to _split_text alone
MaxMinChars == 3        \* largest min_characters_per_sentence given to it

-----------------------------------------------------------------------------
\* Generic helpers.
Min(a, b) == IF a < b THEN a ELSE b
Max(a, b) == IF a > b THEN a ELSE b

RECURSIVE SumSeq(_)
SumSeq(s) == IF s = <<>> THEN 0 ELSE Head(s) + SumSeq(Tail(s))

RECURSIVE Flatten(_)
Flatten(ss) == IF ss = <<>> THEN <<>> ELSE Head(ss) \o Flatten(Tail(ss))

SeqsUpTo(S, n) == UNION {[1..k -> S] : k \in 0..n}

\* Python slice s[a:b] for 0 <= a (0-based, end exclusive, clamped).
Slice(s, a, b) == SubSeq(s, a + 1, Min(b, Len(s)))

-----------------------------------------------------------------------------
\* ---------------------------- SentenceChunker ----------------------------

\* self.sep, the sentinel of _split_text ("~" stands for U+2704).
sep == "~"

\* The characters of the input texts: a letter, a delimiter, a blank and
\* the sentinel itself.
Alphabet == {"a", ".", " ", sep}
Whitespace == {" "}

\* str.strip(): drop the leading and the trailing whitespace.
RECURSIVE LStrip(_)
LStrip(t) == IF t # <<>> /\ Head(t) \in Whitespace THEN LStrip(Tail(t)) ELSE t

RECURSIVE RStrip(_)
RStrip(t) ==
    IF t # <<>> /\ t[Len(t)] \in Whitespace
    THEN RStrip(SubSeq(t, 1, Len(t) - 1)) ELSE t

Strip(t) == RStrip(LStrip(t))

\* A mutant of IsBlank: only the empty string is blank.
IsBlank_EmptyOnly(t) == t = <<>>

\* `not text.strip()`, the test both chunk() methods begin with.
IsBlank(t) == Strip(t) = <<>>

\* str.replace(c, r) for a non-empty pattern c: left to right, the
\* occurrences do not overlap.
RECURSIVE Replace(_, _, _)
Replace(t, c, r) ==
    IF t = <<>> THEN <<>>
    ELSE IF Len(c) <= Len(t) /\ SubSeq(t, 1, Len(c)) = c
         THEN r \o Replace(SubSeq(t, Len(c) + 1, Len(t)), c, r)
         ELSE <<Head(t)>> \o Replace(Tail(t), c, r)

\* str.split(s) for a one-character separator s: the pieces between the
\* separators, the empty ones included; cur is the piece being read.
RECURSIVE SplitOn(_, _, _)
SplitOn(t, s, cur) ==
    IF t = <<>> THEN <<cur>>
    ELSE IF Head(t) = s
         THEN <<cur>> \o SplitOn(Tail(t), s, <<>>)
         ELSE SplitOn(Tail(t), s, Append(cur, Head(t)))

\* _split_text, lines 166-173: the loop over self.delim.
RECURSIVE MarkDelims(_, _, _)
MarkDelims(t, delim, include_delim) ==
    IF delim = <<>> THEN t
    ELSE LET c == Head(delim)
             t1 == IF include_delim = "prev" THEN Replace(t, c, c \o <<sep>>)
                   ELSE IF include_delim = "next" THEN Replace(t, c, <<sep>> \o c)
                   ELSE Replace(t, c, <<sep>>)
         IN MarkDelims(t1, Tail(delim), include_delim)

\* _split_text, line 176: the initial split, the empty pieces dropped.
InitialSplits(t) == SelectSeq(SplitOn(t, sep, <<>>), LAMBDA s : s # <<>>)

\* A mutant of CombineSplits: a long split does not join the pending short
\* buffer, the two are emitted as two sentences.
RECURSIVE CombineSplits_NoJoin(_, _, _)
CombineSplits_NoJoin(splits, st, min_chars) ==
    IF splits = <<>> THEN st
    ELSE LET s == Head(splits)
             a == IF Len(s) < min_chars
                  THEN [current |-> st.current \o s, sentences |-> st.sentences]
                  ELSE IF st.current # <<>>
                       THEN [current |-> <<>>,
                             sentences |-> Append(Append(st.sentences,
                                                         st.current), s)]
                       ELSE [current |-> st.current,
                             sentences |-> Append(st.sentences, s)]
             b == IF Len(a.current) >= min_chars
                  THEN [current |-> <<>>,
                        sentences |-> Append(a.sentences, a.current)]
                  ELSE a
         IN CombineSplits_NoJoin(Tail(splits), b, min_chars)

\* _split_text, lines 179-196: the loop that combines short splits;
\* st = [current, sentences] is the state of the loop.
RECURSIVE CombineSplits(_, _, _)
CombineSplits(splits, st, min_chars) ==
    IF splits = <<>> THEN st
    ELSE LET s == Head(splits)
             a == IF Len(s) < min_chars
                  THEN [current |-> st.current \o s, sentences |-> st.sentences]
                  ELSE IF st.current # <<>>
                       THEN [current |-> <<>>,
                             sentences |-> Append(st.sentences, st.current \o s)]
                       ELSE [current |-> st.current,
                             sentences |-> Append(st.sentences, s)]
             b == IF Len(a.current) >= min_chars
                  THEN [current |-> <<>>,
                        sentences |-> Append(a.sentences, a.current)]
                  ELSE a
         IN CombineSplits(Tail(splits), b, min_chars)

\* A mutant of SplitText: the trailing short buffer is not emitted.
SplitText_DropsTrailing(self, t) ==
    CombineSplits(InitialSplits(MarkDelims(t, self.delim, self.include_delim)),
                  [current |-> <<>>, sentences |-> <<>>],
                  self.min_characters_per_sentence).sentences

\* SentenceChunker._split_text.
SplitText(self, t) ==
    LET marked == MarkDelims(t, self.delim, self.include_delim)
        st == CombineSplits(InitialSplits(marked),
                            [current |-> <<>>, sentences |-> <<>>],
                            self.min_characters_per_sentence)
    IN IF st.current # <<>> THEN Append(st.sentences, st.current)
       ELSE st.sentences

\* A mutant of Positions: one more character is counted between sentences.
RECURSIVE Positions_PlusSpace(_, _)
Positions_PlusSpace(sentence_texts, current_pos) ==
    IF sentence_texts = <<>> THEN <<>>
    ELSE <<current_pos>>
         \o Positions_PlusSpace(Tail(sentence_texts),
                                current_pos + Len(Head(sentence_texts)) + 1)

\* _prepare_sentences, lines 239-245: positions[i] is the sum of the lengths
\* of the sentences before sentence i.
RECURSIVE Positions(_, _)
Positions(sentence_texts, current_pos) ==
    IF sentence_texts = <<>> THEN <<>>
    ELSE <<current_pos>>
         \o Positions(Tail(sentence_texts), current_pos + Len(Head(sentence_texts)))

\* SentenceChunker._prepare_sentences, given what count_tokens_batch returned.
PrepareSentences(sentence_texts, counts) ==
    LET positions == Positions(sentence_texts, 0)
    IN [i \in 1..Len(sentence_texts) |->
          [text |-> sentence_texts[i],
           start_index |-> positions[i],
           end_index |-> positions[i] + Len(sentence_texts[i]),
           token_count |-> counts[i]]]

\* itertools.accumulate(counts, initial=0).
RECURSIVE Accumulate(_, _)
Accumulate(counts, acc) ==
    IF counts = <<>> THEN <<acc>>
    ELSE <<acc>> \o Accumulate(Tail(counts), acc + Head(counts))

\* bisect.bisect_left(a, x, lo, hi) on the 0-based list a.
RECURSIVE BisectLeft(_, _, _, _)
BisectLeft(a, x, lo, hi) ==
    IF lo < hi
    THEN LET mid == (lo + hi) \div 2
         IN IF a[mid + 1] < x THEN BisectLeft(a, x, mid + 1, hi)
            ELSE BisectLeft(a, x, lo, mid)
    ELSE lo

\* The values given for min_sentences_per_chunk and for
\* min_characters_per_sentence (0 is the invalid one).
MinSentencesArgs == 0..2
MinCharsArgs == 0..2

\* The delim argument: Python's None, or a list of delimiter strings.
DelimNone == [none |-> TRUE, list |-> <<>>]
DelimList(d) == [none |-> FALSE, list |-> d]
DelimArgs == {DelimNone, DelimList(<<>>), DelimList(<< <<".">> >>)}

\* The arguments __init__ may be given, the invalid ones included
\* ("None" is Python's None).
SentenceArgs ==
    [chunk_size : 0..MaxChunkSize,
     chunk_overlap : 0..MaxChunkSize,
     min_sentences_per_chunk : MinSentencesArgs,
     min_characters_per_sentence : MinCharsArgs,
     delim : DelimArgs,
     include_delim : {"prev", "next", "None", "both"},
     return_type : {"chunks", "texts", "json"}]

\* A mutant of InitError: return_type is not validated.
InitError_AnyReturnType(a) ==
    IF a.chunk_size <= 0 THEN "chunk_size must be positive"
    ELSE IF a.chunk_overlap >= a.chunk_size
         THEN "chunk_overlap must be less than chunk_size"
    ELSE IF a.min_sentences_per_chunk < 1
         THEN "min_sentences_per_chunk must be at least 1"
    ELSE IF a.min_characters_per_sentence < 1
         THEN "min_characters_per_sentence must be at least 1"
    ELSE IF a.delim.none THEN "delim must be a list of strings or a string"
    ELSE IF a.include_delim \notin {"prev", "next", "None"}
         THEN "include_delim must be 'prev', 'next' or None"
    ELSE "ok"

\* SentenceChunker.__init__, lines 73-86: the ValueError raised, or "ok".
InitError(a) ==
    IF a.chunk_size <= 0 THEN "chunk_size must be positive"
    ELSE IF a.chunk_overlap >= a.chunk_size
         THEN "chunk_overlap must be less than chunk_size"
    ELSE IF a.min_sentences_per_chunk < 1
         THEN "min_sentences_per_chunk must be at least 1"
    ELSE IF a.min_characters_per_sentence < 1
         THEN "min_characters_per_sentence must be at least 1"
    ELSE IF a.delim.none THEN "delim must be a list of strings or a string"
    ELSE IF a.include_delim \notin {"prev", "next", "None"}
         THEN "include_delim must be 'prev', 'next' or None"
    ELSE IF a.return_type \notin {"chunks", "texts"}
         THEN "Invalid return_type"
    ELSE "ok"

\* SentenceChunker.__init__, lines 91-99: the attributes assigned.
InitAttrs(a) ==
    [chunk_size |-> a.chunk_size,
     chunk_overlap |-> a.chunk_overlap,
     min_sentences_per_chunk |-> a.min_sentences_per_chunk,
     min_characters_per_sentence |-> a.min_characters_per_sentence,
     delim |-> a.delim.list,
     include_delim |-> a.include_delim,
     return_type |-> a.return_type]

\* A mutant of BisectSplit: the result of bisect_left is not decremented.
BisectSplit_NoDecrement(self, sents, sums, p) ==
    LET target_tokens == sums[p + 1] + self.chunk_size
        split_idx == BisectLeft(sums, target_tokens, 0, Len(sums))
    IN Max(Min(split_idx, Len(sents)), p + 1)

\* chunk(), lines 317-322: the split point the bisection gives.
BisectSplit(self, sents, sums, p) ==
    LET target_tokens == sums[p + 1] + self.chunk_size
        split_idx == BisectLeft(sums, target_tokens, 0, Len(sums)) - 1
    IN Max(Min(split_idx, Len(sents)), p + 1)

\* A mutant of WarnsUnmet: the warning is never raised.
WarnsUnmet_Never(self, sents, sums, p) == FALSE

\* chunk(), line 325 and line 328 failing: the unmet-minimum warning is raised.
WarnsUnmet(self, sents, sums, p) ==
    /\ BisectSplit(self, sents, sums, p) - p < self.min_sentences_per_chunk
    /\ ~(p + self.min_sentences_per_chunk <= Len(sents))

\* A mutant of SplitIdx: the minimum-sentence rule is left out.
SplitIdx_NoMinimum(self, sents, sums, p) ==
    LET target_tokens == sums[p + 1] + self.chunk_size
        split_idx == BisectLeft(sums, target_tokens, 0, Len(sums)) - 1
    IN Max(Min(split_idx, Len(sents)), p + 1)

\* chunk(), lines 317-336: split_idx of the chunk that starts at p.
SplitIdx(self, sents, sums, p) ==
    LET split_idx == BisectSplit(self, sents, sums, p)
    IN IF split_idx - p < self.min_sentences_per_chunk
       THEN IF p + self.min_sentences_per_chunk <= Len(sents)
            THEN p + self.min_sentences_per_chunk
            ELSE Len(sents)
       ELSE split_idx

\* A mutant of OverlapWalk: the walk does not stop before the sentence that
\* takes the overlap over chunk_overlap.
RECURSIVE OverlapWalk_NoBreak(_, _, _, _, _)
OverlapWalk_NoBreak(self, sents, p, overlap_idx, overlap_tokens) ==
    IF overlap_idx > p /\ overlap_tokens < self.chunk_overlap
    THEN OverlapWalk_NoBreak(self, sents, p, overlap_idx - 1,
                             overlap_tokens + sents[overlap_idx + 1].token_count + 1)
    ELSE overlap_idx

\* A mutant of OverlapWalk: the walk may take the first sentence of the
\* chunk too.
RECURSIVE OverlapWalk_ToFirst(_, _, _, _, _)
OverlapWalk_ToFirst(self, sents, p, overlap_idx, overlap_tokens) ==
    IF overlap_idx >= p /\ overlap_tokens < self.chunk_overlap
    THEN LET sent == sents[overlap_idx + 1]
             next_tokens == overlap_tokens + sent.token_count + 1
         IN IF next_tokens > self.chunk_overlap THEN overlap_idx
            ELSE OverlapWalk_ToFirst(self, sents, p, overlap_idx - 1, next_tokens)
    ELSE overlap_idx

\* chunk(), lines 351-357: the backward walk; returns the final overlap_idx.
RECURSIVE OverlapWalk(_, _, _, _, _)
OverlapWalk(self, sents, p, overlap_idx, overlap_tokens) ==
    IF overlap_idx > p /\ overlap_tokens < self.chunk_overlap
    THEN LET sent == sents[overlap_idx + 1]
             next_tokens == overlap_tokens + sent.token_count + 1
         IN IF next_tokens > self.chunk_overlap THEN overlap_idx
            ELSE OverlapWalk(self, sents, p, overlap_idx - 1, next_tokens)
    ELSE overlap_idx

\* A mutant of NextPos: the cursor never moves back.
NextPos_NoOverlap(self, sents, p, split_idx) == split_idx

\* chunk(), lines 346-362: the cursor after the chunk [p, split_idx).
NextPos(self, sents, p, split_idx) ==
    IF self.chunk_overlap > 0 /\ split_idx < Len(sents)
    THEN OverlapWalk(self, sents, p, split_idx - 1, 0) + 1
    ELSE split_idx

\* SentenceChunker._create_chunk.
CreateChunk(self, chunk_sentences, token_count) ==
    LET chunk_text == Flatten([i \in 1..Len(chunk_sentences) |->
                                  chunk_sentences[i].text])
    IN IF self.return_type = "texts" THEN chunk_text
       ELSE [text |-> chunk_text,
             start_index |-> chunk_sentences[1].start_index,
             end_index |-> chunk_sentences[Len(chunk_sentences)].end_index,
             token_count |-> token_count,
             sentences |-> chunk_sentences]

\* chunk(), lines 339-342: the chunk appended for [p, split_idx).
EmitChunk(self, sents, p, split_idx) ==
    LET chunk_sentences == SubSeq(sents, p + 1, split_idx)
        chunk_token_count == SumSeq([i \in 1..Len(chunk_sentences) |->
                                        chunk_sentences[i].token_count])
    IN CreateChunk(self, chunk_sentences, chunk_token_count)

\* ---- the actions of SentenceChunker ----

\* SentenceChunker(...) raising ValueError before anything is assigned.
SentenceInitFails ==
    /\ spc = "new"
    /\ cpc = "new"     \* a behaviour follows one chunker object
    /\ \E a \in SentenceArgs :
          /\ InitError(a) # "ok"
          /\ sentence_args' = a
    /\ spc' = "config_error"
    /\ UNCHANGED cvars
    /\ UNCHANGED tvars
    /\ UNCHANGED <<sentence_chunker, text, sentences, token_sums, chunks, pos,
                   spans, unmet_warnings, tokenizer_calls>>

\* SentenceChunker(...) returning the chunker.
SentenceInitOk ==
    /\ spc = "new"
    /\ cpc = "new"     \* a behaviour follows one chunker object
    /\ \E a \in SentenceArgs :
          /\ InitError(a) = "ok"
          /\ sentence_args' = a
          /\ sentence_chunker' = InitAttrs(a)
    /\ spc' = "ready"
    /\ UNCHANGED cvars
    /\ UNCHANGED tvars
    /\ UNCHANGED <<text, sentences, token_sums, chunks, pos, spans,
                   unmet_warnings, tokenizer_calls>>

\* chunk(text), lines 294-295: blank input.
ChunkBlank ==
    /\ spc = "ready"
    /\ \E t \in SeqsUpTo(Alphabet, MaxLen) :
          /\ IsBlank(t)
          /\ text' = t
    /\ chunks' = <<>>
    /\ spc' = "returned"
    /\ UNCHANGED cvars
    /\ UNCHANGED tvars
    /\ UNCHANGED <<sentence_chunker, sentences, token_sums, pos, spans,
                   unmet_warnings, tokenizer_calls,
                   sentence_args>>

\* chunk(text), lines 298-300 with _prepare_sentences line 235-236: no
\* sentence is left, the tokenizer is not called.
ChunkNoSentences ==
    /\ spc = "ready"
    /\ \E t \in SeqsUpTo(Alphabet, MaxLen) :
          /\ ~IsBlank(t)
          /\ SplitText(sentence_chunker, t) = <<>>
          /\ text' = t
    /\ chunks' = <<>>
    /\ spc' = "returned"
    /\ UNCHANGED cvars
    /\ UNCHANGED tvars
    /\ UNCHANGED <<sentence_chunker, sentences, token_sums, pos, spans,
                   unmet_warnings, tokenizer_calls,
                   sentence_args>>

\* chunk(text), lines 298-313: the sentences are prepared (one batched call
\* of the tokenizer, whose counts are any naturals up to MaxTok) and the
\* loop is entered.
ChunkBegin ==
    /\ spc = "ready"
    /\ \E t \in SeqsUpTo(Alphabet, MaxLen) :
          /\ ~IsBlank(t)
          /\ LET sentence_texts == SplitText(sentence_chunker, t)
             IN /\ sentence_texts # <<>>
                /\ \E counts \in [1..Len(sentence_texts) -> 0..MaxTok] :
                      /\ sentences' = PrepareSentences(sentence_texts, counts)
                      /\ token_sums' = Accumulate(counts, 0)
          /\ text' = t
    /\ tokenizer_calls' = tokenizer_calls + 1
    /\ chunks' = <<>>
    /\ pos' = 0
    /\ spc' = "loop"
    /\ UNCHANGED cvars
    /\ UNCHANGED tvars
    /\ UNCHANGED <<sentence_args, sentence_chunker, spans, unmet_warnings>>

\* chunk(), lines 315-362: one iteration of the while loop.
ChunkLoop ==
    /\ spc = "loop"
    /\ pos < Len(sentences)
    /\ LET split_idx == SplitIdx(sentence_chunker, sentences, token_sums, pos)
       IN /\ chunks' = Append(chunks,
                              EmitChunk(sentence_chunker, sentences, pos, split_idx))
          /\ spans' = Append(spans, <<pos, split_idx>>)
          /\ pos' = NextPos(sentence_chunker, sentences, pos, split_idx)
    /\ unmet_warnings' =
          IF WarnsUnmet(sentence_chunker, sentences, token_sums, pos)
          THEN unmet_warnings + 1 ELSE unmet_warnings
    /\ UNCHANGED cvars
    /\ UNCHANGED tvars
    /\ UNCHANGED <<sentence_chunker, spc, text, sentences, token_sums,
                   tokenizer_calls,
                   sentence_args>>

\* chunk(), lines 315 and 364: the loop ends and the chunks are returned.
ChunkReturn ==
    /\ spc = "loop"
    /\ ~(pos < Len(sentences))
    /\ spc' = "returned"
    /\ UNCHANGED cvars
    /\ UNCHANGED tvars
    /\ UNCHANGED <<sentence_chunker, text, sentences, token_sums, chunks, pos,
                   spans, unmet_warnings, tokenizer_calls,
                   sentence_args>>

\* _split_text(text) called alone, lines 165-202: the delimiters are
\* marked, the text is split at the marks, the short splits are combined.
SplitTextCall ==
    /\ spc = "split_call"
    /\ initial_splits' = InitialSplits(MarkDelims(text, sentence_chunker.delim,
                                                  sentence_chunker.include_delim))
    /\ split_sentences' = SplitText(sentence_chunker, text)
    /\ spc' = "split_done"
    /\ UNCHANGED cvars
    /\ UNCHANGED <<sentence_args, sentence_chunker, text, sentences, token_sums,
                   chunks, pos, spans, unmet_warnings, tokenizer_calls>>

SNext ==
    \/ SentenceInitFails
    \/ SentenceInitOk
    \/ ChunkBlank
    \/ ChunkNoSentences
    \/ ChunkBegin
    \/ ChunkLoop
    \/ ChunkReturn

-----------------------------------------------------------------------------
\* ------------------- Properties of the SentenceChunker -------------------

\* The text of a returned chunk, in either return_type.
ChunkText(c) == IF sentence_chunker.return_type = "texts" THEN c ELSE c.text

\* chunk() has returned the chunks of a non-blank text.
SentenceReturned == spc = "returned" /\ Strip(text) # <<>>

\* The number of characters of the sentences p+1..q (0-based [p, q)).
CharsOf(p, q) == SumSeq([k \in 1..(q - p) |-> Len(sentences[p + k].text)])

\* The token counts of the sentences [p, q) summed.
TokensOf(p, q) == SumSeq([k \in 1..(q - p) |-> sentences[p + k].token_count])

\* The sentences chunk i shares with chunk i-1 are those from its first one
\* up to the end of chunk i-1: [spans[i][1], SharedEnd(i)).
SharedEnd(i) ==
    IF i = 1 THEN spans[i][1]
    ELSE Max(spans[i][1], Min(spans[i - 1][2], spans[i][2]))

\* Chunk i without the leading sentences it shares with chunk i-1.
Unshared(i) ==
    LET t == ChunkText(chunks[i])
    IN SubSeq(t, CharsOf(spans[i][1], SharedEnd(i)) + 1, Len(t))

\* The chunk texts concatenated, the shared leading sentences removed.
Reconstructed == Flatten([i \in 1..Len(chunks) |-> Unshared(i)])

\* The chunk texts concatenated as they are.
Concatenated == Flatten([i \in 1..Len(chunks) |-> ChunkText(chunks[i])])

Coverage ==
    /\ Reconstructed = text
    /\ sentence_chunker.chunk_overlap = 0 => Concatenated = text

\* C1 as stated: for every non-blank text and every accepted configuration
\* (any include_delim mode), the chunks, the shared leading sentences
\* removed, concatenate to the input text; with chunk_overlap = 0 the plain
\* concatenation is the input text.
C1_CoverageAnyMode == SentenceReturned => Coverage

SentinelFree(t) == \A i \in 1..Len(t) : t[i] # sep

\* C1 amended: the same, for include_delim "prev" or "next" and a text that
\* does not contain the sentinel character.
C1_Coverage ==
    (/\ SentenceReturned
     /\ sentence_chunker.include_delim \in {"prev", "next"}
     /\ SentinelFree(text))
    => Coverage

\* C1 witness: a text with a delimiter inside was cut into overlapping chunks.
C1_Witness ==
    /\ SentenceReturned
    /\ sentence_chunker.include_delim \in {"prev", "next"}
    /\ SentinelFree(text)
    /\ Len(chunks) >= 2
    /\ sentence_chunker.chunk_overlap > 0
    /\ \E i \in 2..Len(spans) : spans[i][1] < spans[i - 1][2]
    /\ Reconstructed = text

\* chunk() has returned Chunk records (return_type "chunks").
ChunksReturned == SentenceReturned /\ sentence_chunker.return_type = "chunks"

OversizedSingle(c) ==
    /\ Len(c.sentences) = 1
    /\ c.sentences[1].token_count > sentence_chunker.chunk_size

\* C3 as stated: every returned chunk has token_count <= chunk_size, except
\* a chunk of one single sentence whose own count exceeds chunk_size.
C3_BudgetAnyMinimum ==
    ChunksReturned =>
        \A i \in 1..Len(chunks) :
            \/ chunks[i].token_count <= sentence_chunker.chunk_size
            \/ OversizedSingle(chunks[i])

\* C3 amended: the exceptions are the single oversized sentence and, when
\* min_sentences_per_chunk > 1, a chunk holding at most
\* min_sentences_per_chunk sentences (the minimum overrides the budget).
C3_Budget ==
    ChunksReturned =>
        \A i \in 1..Len(chunks) :
            \/ chunks[i].token_count <= sentence_chunker.chunk_size
            \/ OversizedSingle(chunks[i])
            \/ /\ sentence_chunker.min_sentences_per_chunk > 1
               /\ Len(chunks[i].sentences)
                     <= sentence_chunker.min_sentences_per_chunk

\* C3 witness: a chunk of several sentences within the budget, followed by a
\* single sentence that alone exceeds it.
C3_Witness ==
    /\ ChunksReturned
    /\ \E i \in 1..Len(chunks) :
          /\ Len(chunks[i].sentences) >= 2
          /\ chunks[i].token_count > 0
          /\ chunks[i].token_count <= sentence_chunker.chunk_size
    /\ \E i \in 1..Len(chunks) : OversizedSingle(chunks[i])

\* C7: every returned chunk but the last holds at least
\* min_sentences_per_chunk sentences.
C7_MinimumSentences ==
    SentenceReturned =>
        \A i \in 1..(Len(chunks) - 1) :
            /\ spans[i][2] - spans[i][1]
                  >= sentence_chunker.min_sentences_per_chunk
            /\ sentence_chunker.return_type = "chunks" =>
                  Len(chunks[i].sentences)
                      >= sentence_chunker.min_sentences_per_chunk

\* C7 witness: with a minimum of two, the budget alone would have cut the
\* first chunk after one sentence, and a later chunk follows.
C7_Witness ==
    /\ SentenceReturned
    /\ sentence_chunker.min_sentences_per_chunk = 2
    /\ Len(chunks) >= 2
    /\ BisectSplit(sentence_chunker, sentences, token_sums, 0) = 1
    /\ spans[1] = <<0, 2>>

\* The indices of the sentences that belong to chunk i and to chunk i+1.
SharedSentences(i) ==
    {k \in 0..(Len(sentences) - 1) :
        /\ spans[i][1] <= k /\ k < spans[i][2]
        /\ spans[i + 1][1] <= k /\ k < spans[i + 1][2]}

RECURSIVE SumTokens(_)
SumTokens(S) ==
    IF S = {} THEN 0
    ELSE LET k == CHOOSE x \in S : TRUE
         IN sentences[k + 1].token_count + SumTokens(S \ {k})

\* C8: the sentences two consecutive chunks share never weigh more than
\* chunk_overlap tokens (and nothing is shared when chunk_overlap = 0).
C8_OverlapBound ==
    SentenceReturned =>
        \A i \in 1..(Len(spans) - 1) :
            /\ SumTokens(SharedSentences(i)) <= sentence_chunker.chunk_overlap
            /\ sentence_chunker.chunk_overlap = 0 => SharedSentences(i) = {}

\* C8 witness: two consecutive chunks share a sentence that has tokens.
C8_Witness ==
    /\ SentenceReturned
    /\ \E i \in 1..(Len(spans) - 1) : SumTokens(SharedSentences(i)) > 0

\* text[a:b] of the input.
InputSlice(a, b) == SubSeq(text, a + 1, b)

\* C9: with include_delim "prev" or "next" and no sentinel in the input,
\* every chunk is the slice of the input its offsets name, and the
\* sentences tile the input from offset 0.
C9_Offsets ==
    (/\ spc \in {"loop", "returned"}
     /\ Strip(text) # <<>>
     /\ sentence_chunker.include_delim \in {"prev", "next"}
     /\ SentinelFree(text))
    =>
    /\ \A k \in 1..Len(sentences) :
          /\ sentences[k].end_index
                = sentences[k].start_index + Len(sentences[k].text)
          /\ sentences[k].start_index
                = IF k = 1 THEN 0 ELSE sentences[k - 1].end_index
          /\ sentences[k].text
                = InputSlice(sentences[k].start_index, sentences[k].end_index)
    /\ sentence_chunker.return_type = "chunks" =>
          \A i \in 1..Len(chunks) :
              /\ chunks[i].text
                    = InputSlice(chunks[i].start_index, chunks[i].end_index)
              /\ chunks[i].end_index - chunks[i].start_index
                    = Len(chunks[i].text)

\* C9 witness: a second chunk, of two sentences, that starts inside the text.
C9_Witness ==
    /\ ChunksReturned
    /\ sentence_chunker.include_delim \in {"prev", "next"}
    /\ SentinelFree(text)
    /\ \E i \in 2..Len(chunks) :
          /\ chunks[i].start_index > 0
          /\ Len(chunks[i].sentences) = 2
          /\ chunks[i].text
                = InputSlice(chunks[i].start_index, chunks[i].end_index)

-----------------------------------------------------------------------------
\* ------------------------------ CodeChunker ------------------------------

\* Bounds of the CodeChunker model.
MaxCodeChunkSize == 2   \* largest chunk_size given to CodeChunker
MaxKids == 3            \* most children of the root node
MaxCodeLen == 3         \* longest source text, in characters
MaxGroups == 2          \* most node groups given to the reconstructor

\* The tokenizer counts up to one token more than the largest chunk_size.
MaxNodeTok == MaxCodeChunkSize + 1

\* A syntax node: what the model keeps of tree_sitter.Node.  token_count is
\* what self.tokenizer.count_tokens gives for the node's text.
Node(id, token_count, start_byte, end_byte, children) ==
    [id |-> id, token_count |-> token_count,
     start_byte |-> start_byte, end_byte |-> end_byte, children |-> children]

\* A mutant of MergeNodeGroups: only the first group of the run is kept.
MergeNodeGroups_FirstOnly(groups) == Head(groups)

\* CodeChunker._merge_node_groups.
MergeNodeGroups(groups) == Flatten(groups)

\* A mutant of MergeIndex: the result of bisect_left is not decremented.
MergeIndex_NoDecrement(self, groups, cum, p) ==
    LET required_cumulative_target == cum[p + 1] + self.chunk_size
        index == BisectLeft(cum, required_cumulative_target, p, Len(cum))
    IN Max(Min(index, Len(groups)), p + 1)

\* _group_child_nodes, lines 115-142: the end of the run merged from group p.
MergeIndex(self, groups, cum, p) ==
    LET start_cumulative_count == cum[p + 1]
        required_cumulative_target == start_cumulative_count + self.chunk_size
        index0 == BisectLeft(cum, required_cumulative_target, p, Len(cum)) - 1
        index1 == IF index0 = p THEN p + 1 ELSE index0
        index2 == Min(index1, Len(groups))
    IN IF index2 <= p THEN p + 1 ELSE index2

\* _group_child_nodes, lines 110-156: pass 2, the coalescing loop.
RECURSIVE Pass2Loop(_, _, _, _, _)
Pass2Loop(self, groups, cum, p, merged) ==
    IF p < Len(groups)
    THEN LET index == MergeIndex(self, groups, cum, p)
             groups_to_merge == Slice(groups, p, index)
         IN IF groups_to_merge = <<>> THEN merged
            ELSE Pass2Loop(self, groups, cum, index,
                    [node_groups |-> Append(merged.node_groups,
                                            MergeNodeGroups(groups_to_merge)),
                     token_counts |-> Append(merged.token_counts,
                                             cum[index + 1] - cum[p + 1])])
    ELSE merged

\* _group_child_nodes, lines 113-156: the runs <<pos, index>> of pass-1
\* groups the coalescing loop merges, in order.
RECURSIVE Pass2Runs(_, _, _, _)
Pass2Runs(self, groups, cum, p) ==
    IF p < Len(groups)
    THEN LET index == MergeIndex(self, groups, cum, p)
         IN IF Slice(groups, p, index) = <<>> THEN <<>>
            ELSE <<<<p, index>>>> \o Pass2Runs(self, groups, cum, index)
    ELSE <<>>

\* _group_child_nodes, lines 107-159: pass 2 on the groups of pass 1.
Pass2(self, p1) ==
    Pass2Loop(self, p1.node_groups, Accumulate(p1.token_counts, 0), 0,
              [node_groups |-> <<>>, token_counts |-> <<>>])

RECURSIVE GroupChildNodes(_, _)
RECURSIVE Pass1Loop(_, _, _)

\* _group_child_nodes, lines 75-80: the current group is added, if any.
Flush(st) ==
    IF st.current_node_group # <<>>
    THEN [node_groups |-> Append(st.node_groups, st.current_node_group),
          token_counts |-> Append(st.token_counts, st.current_token_count),
          current_node_group |-> <<>>,
          current_token_count |-> 0]
    ELSE st

\* _group_child_nodes, lines 69-98: pass 1, the loop over node.children.
Pass1Loop(self, children, st) ==
    IF children = <<>> THEN st
    ELSE LET child == Head(children)
             token_count == child.token_count
             st1 ==
               IF token_count > self.chunk_size
               THEN LET flushed == Flush(st)
                        sub == GroupChildNodes(self, child)
                    IN [flushed EXCEPT
                          !.node_groups = @ \o sub.node_groups,
                          !.token_counts = @ \o sub.token_counts]
               ELSE IF st.current_token_count + token_count > self.chunk_size
               THEN [node_groups |-> Append(st.node_groups, st.current_node_group),
                     token_counts |-> Append(st.token_counts, st.current_token_count),
                     current_node_group |-> <<child>>,
                     current_token_count |-> token_count]
               ELSE [st EXCEPT
                       !.current_node_group = Append(@, child),
                       !.current_token_count = @ + token_count]
         IN Pass1Loop(self, Tail(children), st1)

\* _group_child_nodes, lines 63-104: the groups and counts of pass 1.
Pass1(self, node) ==
    LET st == Flush(Pass1Loop(self, node.children,
                              [node_groups |-> <<>>, token_counts |-> <<>>,
                               current_node_group |-> <<>>,
                               current_token_count |-> 0]))
    IN [node_groups |-> st.node_groups, token_counts |-> st.token_counts]

\* CodeChunker._group_child_nodes.
GroupChildNodes(self, node) ==
    IF Len(node.children) = 0
    THEN [node_groups |-> <<>>, token_counts |-> <<>>]
    ELSE Pass2(self, Pass1(self, node))

\* _group_child_nodes, line 71: count_tokens is called once for every child
\* visited, in the recursive calls too.
RECURSIVE CountTokensCalls(_, _)
CountTokensCalls(self, node) ==
    SumSeq([i \in 1..Len(node.children) |->
              1 + (IF node.children[i].token_count > self.chunk_size
                   THEN CountTokensCalls(self, node.children[i]) ELSE 0)])

\* The characters of the source texts: a letter, a blank and "E", which
\* stands for a character of two bytes in UTF-8 (e-acute, C3 A9).
CodeAlphabet == {"x", " ", "E"}

\* str.encode("utf-8").
RECURSIVE Encode(_)
Encode(t) ==
    IF t = <<>> THEN <<>>
    ELSE (IF Head(t) = "E" THEN <<195, 169>>
          ELSE IF Head(t) = " " THEN <<32>> ELSE <<120>>) \o Encode(Tail(t))

\* bytes.decode("utf-8", errors="ignore"): a byte that does not belong to a
\* complete character is dropped.
RECURSIVE Decode(_)
Decode(b) ==
    IF b = <<>> THEN <<>>
    ELSE IF Head(b) = 120 THEN <<"x">> \o Decode(Tail(b))
    ELSE IF Head(b) = 32 THEN <<" ">> \o Decode(Tail(b))
    ELSE IF Head(b) = 195 /\ Len(b) >= 2 /\ b[2] = 169
         THEN <<"E">> \o Decode(SubSeq(b, 3, Len(b)))
    ELSE Decode(Tail(b))

\* The outcome of a call: the value returned, or the exception raised.
Returned(v) == [raised |-> "", value |-> v]
Raised(e) == [raised |-> e, value |-> <<>>]

\* _get_texts_from_node_groups, lines 183-218: the loop over the groups,
\* from group i (0-based) on; chunk_texts is the list built so far.
RECURSIVE TextsLoop(_, _, _, _)
TextsLoop(groups, bytes, i, chunk_texts) ==
    IF i >= Len(groups) THEN Returned(chunk_texts)
    ELSE LET group == groups[i + 1]
         IN IF group = <<>> THEN TextsLoop(groups, bytes, i + 1, chunk_texts)
            ELSE LET start_byte == group[1].start_byte
                     end_byte == group[Len(group)].end_byte
                 IN IF start_byte > end_byte
                    THEN TextsLoop(groups, bytes, i + 1, chunk_texts)
                    ELSE IF start_byte < 0 \/ end_byte > Len(bytes)
                    THEN TextsLoop(groups, bytes, i + 1, chunk_texts)
                    ELSE IF i < Len(groups) - 1 /\ groups[i + 2] = <<>>
                    THEN Raised("IndexError")
                    ELSE LET end == IF i < Len(groups) - 1
                                    THEN groups[i + 2][1].start_byte
                                    ELSE end_byte
                             chunk_bytes == Slice(bytes, start_byte, end)
                         IN TextsLoop(groups, bytes, i + 1,
                                      Append(chunk_texts, Decode(chunk_bytes)))

\* A mutant of AddLeading: the bytes before the first node are left out.
AddLeading_Skips(groups, bytes, chunk_texts) == Returned(chunk_texts)

\* _get_texts_from_node_groups, lines 222-223: the leading bytes are added
\* to the first text.
AddLeading(groups, bytes, chunk_texts) ==
    IF groups = <<>> \/ groups[1] = <<>> THEN Raised("IndexError")
    ELSE IF groups[1][1].start_byte # 0
    THEN IF chunk_texts = <<>> THEN Raised("IndexError")
         ELSE Returned([chunk_texts EXCEPT ![1] =
                  Decode(Slice(bytes, 0, groups[1][1].start_byte)) \o @])
    ELSE Returned(chunk_texts)

\* _get_texts_from_node_groups, lines 225-226: the trailing bytes are added
\* to the last text.
AddTrailing(groups, bytes, chunk_texts) ==
    LET last == groups[Len(groups)]
    IN IF last = <<>> THEN Raised("IndexError")
       ELSE IF last[Len(last)].end_byte # Len(bytes)
       THEN IF chunk_texts = <<>> THEN Raised("IndexError")
            ELSE Returned([chunk_texts EXCEPT ![Len(chunk_texts)] =
                     @ \o Decode(Slice(bytes, last[Len(last)].end_byte,
                                       Len(bytes)))])
       ELSE Returned(chunk_texts)

\* CodeChunker._get_texts_from_node_groups.
GetTextsFromNodeGroups(groups, bytes) ==
    IF bytes = <<>> THEN Returned(<<>>)
    ELSE LET looped == TextsLoop(groups, bytes, 0, <<>>)
         IN IF looped.raised # "" THEN looped
            ELSE LET led == AddLeading(groups, bytes, looped.value)
                 IN IF led.raised # "" THEN led
                    ELSE AddTrailing(groups, bytes, led.value)

\* _create_chunks, lines 235-244: zip stops at the shortest of the lists.
RECURSIVE CreateChunksLoop(_, _, _, _, _)
CreateChunksLoop(txts, counts, groups, k, current_index) ==
    IF k > Len(txts) \/ k > Len(counts) \/ k > Len(groups) THEN <<>>
    ELSE <<[text |-> txts[k],
            start_index |-> current_index,
            end_index |-> current_index + Len(txts[k]),
            token_count |-> counts[k],
            nodes |-> groups[k]]>>
         \o CreateChunksLoop(txts, counts, groups, k + 1,
                             current_index + Len(txts[k]))

\* CodeChunker._create_chunks.
CreateChunks(txts, counts, groups) == CreateChunksLoop(txts, counts, groups, 1, 0)

\* ---- the inputs of the CodeChunker ----

\* The arguments of CodeChunker.__init__, which validates none of them.
CodeArgs ==
    [chunk_size : 0..MaxCodeChunkSize,
     return_type : {"chunks", "texts", "json"}]

\* The byte offset of the boundary after k characters of t.
ByteAt(t, k) == Len(Encode(SubSeq(t, 1, k)))

\* The elements of a set of integers in increasing order.
RECURSIVE Sorted(_)
Sorted(S) ==
    IF S = {} THEN <<>>
    ELSE LET m == CHOOSE x \in S : \A y \in S : x <= y
         IN <<m>> \o Sorted(S \ {m})

\* The trees parser.parse may return for the text t in the calls of chunk():
\* every run of non-blank characters is a leaf child of the root, with its
\* byte span, and the tokenizer counts any number of tokens up to
\* MaxNodeTok for it.  The parser may also return a root without children,
\* or a malformed span: the first child's offsets reversed, or the last
\* child's end beyond the buffer.
RunStarts(t) ==
    Sorted({i \in 1..Len(t) : t[i] # " " /\ (i = 1 \/ t[i - 1] = " ")})
RunEnds(t) ==
    Sorted({i \in 1..Len(t) : t[i] # " " /\ (i = Len(t) \/ t[i + 1] = " ")})

ParsedChild(t, k, count, malformed) ==
    LET n == Len(RunStarts(t))
        a == ByteAt(t, RunStarts(t)[k] - 1)
        b == ByteAt(t, RunEnds(t)[k])
    IN IF malformed = "reversed" /\ k = 1 THEN Node(k, count, b, a, <<>>)
       ELSE IF malformed = "beyond" /\ k = n
            THEN Node(k, count, a, Len(Encode(t)) + 1, <<>>)
       ELSE Node(k, count, a, b, <<>>)

ParseResults(t) ==
    {Node(0, 0, 0, Len(Encode(t)), <<>>)}
    \cup
    {Node(0, 0, 0, Len(Encode(t)),
          [k \in 1..Len(RunStarts(t)) |-> ParsedChild(t, k, counts[k], malformed)]) :
        counts \in [1..Len(RunStarts(t)) -> 0..MaxNodeTok],
        malformed \in {"none", "reversed", "beyond"}}

\* The trees given to _group_child_nodes alone (GroupTree): up to MaxKids
\* children with any token counts, one of which may have children of its
\* own.  The byte offsets, which the grouping does not read, are 0.
GroupedChild(i, counts, inner, gk) ==
    Node(i, counts[i], 0, 0,
         IF i = inner
         THEN [j \in 1..Len(gk) |-> Node(10 * i + j, gk[j], 0, 0, <<>>)]
         ELSE <<>>)

\* A child that has children has one or two of them.
GrandKids == 1..2

GroupTree(counts, inner, gk) ==
    Node(0, 0, 0, 0,
         [i \in 1..Len(counts) |-> GroupedChild(i, counts, inner, gk)])

GrandKidCounts(inner) ==
    IF inner = 0 THEN {<<>>}
    ELSE UNION {[1..k -> 0..MaxNodeTok] : k \in GrandKids}

\* The non-decreasing sequences of n integers of lo..hi.
RECURSIVE NonDecreasing(_, _, _)
NonDecreasing(n, lo, hi) ==
    IF n = 0 THEN {<<>>}
    ELSE UNION {{<<v>> \o q : q \in NonDecreasing(n - 1, v, hi)} : v \in lo..hi}

\* The node groups given to _get_texts_from_node_groups alone, for the
\* buffer of the text t: the groups lie in source order between character
\* boundaries cut[1] <= cut[2] <= ... (the parser reads whole characters);
\* a group may be malformed, its offsets reversed or its end beyond the
\* buffer; a group is one node, or (two = TRUE) an empty node followed by
\* a node.
TextGroup(t, i, cut, kind, two) ==
    LET a == ByteAt(t, cut[2 * i - 1])
        b == ByteAt(t, cut[2 * i])
        start == IF kind[i] = "reversed" THEN b ELSE a
        end == IF kind[i] = "reversed" THEN a
               ELSE IF kind[i] = "beyond" THEN Len(Encode(t)) + 1 ELSE b
    IN IF two THEN <<Node(10 * i, 0, start, start, <<>>),
                     Node(10 * i + 1, 1, start, end, <<>>)>>
       ELSE <<Node(10 * i, 1, start, end, <<>>)>>

TextGroups(t, g, cut, kind, two) ==
    [i \in 1..g |-> TextGroup(t, i, cut, kind, two)]

\* ---- the actions of the CodeChunker ----

\* CodeChunker(...): nothing is validated, every argument is assigned.
CodeInit ==
    /\ cpc = "new"
    /\ spc = "new"     \* a behaviour follows one chunker object
    /\ \E a \in CodeArgs : code_chunker' = a
    /\ cpc' = "ready"
    /\ UNCHANGED <<code_text, original_text_bytes, root_node, node_groups,
                   token_counts, texts, code_result, parser_calls, count_tokens_calls>>
    /\ UNCHANGED svars
    /\ UNCHANGED tvars

\* chunk(text), lines 248-249: blank input.
CodeChunkBlank ==
    /\ cpc = "ready"
    /\ \E t \in SeqsUpTo(CodeAlphabet, MaxCodeLen) :
          /\ IsBlank(t)
          /\ code_text' = t
    /\ code_result' = <<>>
    /\ cpc' = "returned"
    /\ UNCHANGED <<code_chunker, original_text_bytes, root_node, node_groups,
                   token_counts, texts, parser_calls, count_tokens_calls>>
    /\ UNCHANGED svars
    /\ UNCHANGED tvars

\* chunk(text), lines 251-255: the text is encoded and parsed.
CodeChunkParse ==
    /\ cpc = "ready"
    /\ \E t \in SeqsUpTo(CodeAlphabet, MaxCodeLen) :
          /\ ~IsBlank(t)
          /\ code_text' = t
          /\ original_text_bytes' = Encode(t)
          /\ root_node' \in ParseResults(t)
    /\ parser_calls' = parser_calls + 1
    /\ cpc' = "parsed"
    /\ UNCHANGED <<code_chunker, node_groups, token_counts, texts, code_result,
                   count_tokens_calls>>
    /\ UNCHANGED svars
    /\ UNCHANGED tvars

\* chunk(), line 258.
CodeGroup ==
    /\ cpc = "parsed"
    /\ LET grouped == GroupChildNodes(code_chunker, root_node)
       IN /\ node_groups' = grouped.node_groups
          /\ token_counts' = grouped.token_counts
    /\ count_tokens_calls' =
          count_tokens_calls + CountTokensCalls(code_chunker, root_node)
    /\ cpc' = "grouped"
    /\ UNCHANGED <<code_chunker, code_text, original_text_bytes, root_node,
                   texts, code_result, parser_calls>>
    /\ UNCHANGED svars
    /\ UNCHANGED tvars

\* chunk(), line 259: the texts are rebuilt, or the call raises.
CodeTexts ==
    /\ cpc = "grouped"
    /\ LET got == GetTextsFromNodeGroups(node_groups, original_text_bytes)
       IN IF got.raised # ""
          THEN cpc' = "raised" /\ texts' = texts
          ELSE cpc' = "texts" /\ texts' = got.value
    /\ UNCHANGED <<code_chunker, code_text, original_text_bytes, root_node,
                   node_groups, token_counts, code_result, parser_calls,
                   count_tokens_calls>>
    /\ UNCHANGED svars
    /\ UNCHANGED tvars

\* chunk(), lines 261-265.
CodeReturn ==
    /\ cpc = "texts"
    /\ code_result' =
          IF code_chunker.return_type = "texts" THEN texts
          ELSE CreateChunks(texts, token_counts, node_groups)
    /\ cpc' = "returned"
    /\ UNCHANGED <<code_chunker, code_text, original_text_bytes, root_node,
                   node_groups, token_counts, texts, parser_calls, count_tokens_calls>>
    /\ UNCHANGED svars
    /\ UNCHANGED tvars

CNext ==
    \/ CodeInit
    \/ CodeChunkBlank
    \/ CodeChunkParse
    \/ CodeGroup
    \/ CodeTexts
    \/ CodeReturn

\* One call of _group_child_nodes on its own.
GroupCall ==
    /\ cpc = "group_call"
    /\ LET grouped == GroupChildNodes(code_chunker, root_node)
       IN /\ node_groups' = grouped.node_groups
          /\ token_counts' = grouped.token_counts
    /\ count_tokens_calls' =
          count_tokens_calls + CountTokensCalls(code_chunker, root_node)
    /\ cpc' = "group_done"
    /\ UNCHANGED <<code_chunker, code_text, original_text_bytes, root_node,
                   texts, code_result, parser_calls>>
    /\ UNCHANGED svars
    /\ UNCHANGED tvars

\* One call of _get_texts_from_node_groups on its own.
TextsCall ==
    /\ cpc = "texts_call"
    /\ LET got == GetTextsFromNodeGroups(node_groups, original_text_bytes)
       IN IF got.raised # ""
          THEN cpc' = "texts_raised" /\ texts' = texts
          ELSE cpc' = "texts_done" /\ texts' = got.value
    /\ UNCHANGED <<code_chunker, code_text, original_text_bytes, root_node,
                   node_groups, token_counts, code_result, parser_calls,
                   count_tokens_calls>>
    /\ UNCHANGED svars
    /\ UNCHANGED tvars

-----------------------------------------------------------------------------
\* --------------------- Properties of the CodeChunker ---------------------

FirstByte(group) == group[1].start_byte
LastByte(group) == group[Len(group)].end_byte

\* There is a node group, and the node byte spans are in source order and
\* inside the buffer.
InSourceOrder(groups, bytes) ==
    /\ groups # <<>>
    /\ \A k \in 1..Len(groups) :
          /\ groups[k] # <<>>
          /\ \A j \in 1..Len(groups[k]) :
                /\ 0 <= groups[k][j].start_byte
                /\ groups[k][j].start_byte <= groups[k][j].end_byte
                /\ groups[k][j].end_byte <= Len(bytes)
          /\ \A j \in 1..Len(groups[k]) - 1 :
                groups[k][j].end_byte <= groups[k][j + 1].start_byte
    /\ \A k \in 1..Len(groups) - 1 :
          LastByte(groups[k]) <= FirstByte(groups[k + 1])

\* The text group k is to get: from its first node (from byte 0 for the
\* first group) to the first node of the next group (to the end of the
\* buffer for the last group).
ExpectedText(groups, bytes, k) ==
    Decode(Slice(bytes,
                 IF k = 1 THEN 0 ELSE FirstByte(groups[k]),
                 IF k = Len(groups) THEN Len(bytes)
                 ELSE FirstByte(groups[k + 1])))

TextsCalled == cpc \in {"texts_done", "texts_raised"}

\* C2 -- syntax path reconstruction: when there is at least one node group
\* and the node byte spans are in source order and inside the buffer,
\* _get_texts_from_node_groups returns one text for every group, the texts
\* concatenated in order are the whole original byte buffer, and the text of
\* group k runs from its first node's start_byte (from byte 0 for the first
\* group) to the start_byte of the first node of group k+1 (to the end of
\* the buffer for the last group).
C2_Reconstruction ==
    (TextsCalled /\ InSourceOrder(node_groups, original_text_bytes)) =>
        /\ cpc = "texts_done"
        /\ Len(texts) = Len(node_groups)
        /\ Encode(Flatten(texts)) = original_text_bytes
        /\ \A k \in 1..Len(node_groups) :
              texts[k] = ExpectedText(node_groups, original_text_bytes, k)

\* Two well-formed groups over a buffer with a two-byte character: the first
\* group starts after byte 0, a gap separates the groups and the second
\* group is not empty.
C2_Witness ==
    /\ cpc = "texts_done"
    /\ InSourceOrder(node_groups, original_text_bytes)
    /\ Len(node_groups) = 2
    /\ FirstByte(node_groups[1]) > 0
    /\ LastByte(node_groups[1]) < FirstByte(node_groups[2])
    /\ FirstByte(node_groups[2]) < LastByte(node_groups[2])
    /\ \E i \in 1..Len(original_text_bytes) : original_text_bytes[i] = 195

GroupCalled == cpc = "group_done"

\* The sum of the token counts of the nodes of a group.
GroupSum(group) == SumSeq([j \in 1..Len(group) |-> group[j].token_count])

\* Every group has a reported count, which is the sum of the counts of its
\* nodes and is within chunk_size.
WithinBudget(self, grouped) ==
    /\ Len(grouped.node_groups) = Len(grouped.token_counts)
    /\ \A k \in 1..Len(grouped.node_groups) :
          /\ grouped.token_counts[k] <= self.chunk_size
          /\ GroupSum(grouped.node_groups[k]) = grouped.token_counts[k]

\* The example of the specification: five children of 3 tokens each.
FiveThrees == Node(0, 0, 0, 0, [i \in 1..5 |-> Node(i, 3, 0, 0, <<>>)])

\* C4 -- syntax path budget: for chunk_size > 0 and non-negative token
\* counts, every group _group_child_nodes returns, for the root and for
\* every child it is called on, has a reported token count <= chunk_size;
\* five children of 3 tokens each with chunk_size 7 give the counts
\* [6, 6, 3] after pass 1 and after pass 2.
C4_Budget ==
    /\ GroupCalled =>
          /\ WithinBudget(code_chunker,
                          [node_groups |-> node_groups,
                           token_counts |-> token_counts])
          /\ \A i \in 1..Len(root_node.children) :
                WithinBudget(code_chunker,
                             GroupChildNodes(code_chunker, root_node.children[i]))
    /\ Pass1([chunk_size |-> 7], FiveThrees).token_counts = <<6, 6, 3>>
    /\ GroupChildNodes([chunk_size |-> 7], FiveThrees).token_counts = <<6, 6, 3>>

\* Pass 2 has merged groups of pass 1, an oversized child has been split
\* into its own children, and a group fills the budget.
C4_Witness ==
    /\ GroupCalled
    /\ Len(node_groups) < Len(Pass1(code_chunker, root_node).node_groups)
    /\ \E i \in 1..Len(root_node.children) :
          /\ root_node.children[i].token_count > code_chunker.chunk_size
          /\ GroupChildNodes(code_chunker, root_node.children[i]).node_groups # <<>>
    /\ \E k \in 1..Len(token_counts) : token_counts[k] = code_chunker.chunk_size

\* C5 -- a child whose token count exceeds chunk_size and which has no
\* children of its own is emitted as a group holding exactly that child,
\* with the child's token count as the group count.
C5_OversizedLeafEmitted ==
    GroupCalled =>
        \A i \in 1..Len(root_node.children) :
            LET child == root_node.children[i]
            IN (child.token_count > code_chunker.chunk_size /\ child.children = <<>>)
               => \E k \in 1..Len(node_groups) :
                     /\ node_groups[k] = <<child>>
                     /\ token_counts[k] = child.token_count

\* C6 -- CodeChunker.chunk completes and returns a list for every non-blank
\* input and every tree the parser may return: the call never raises.
C6_NeverRaises == cpc # "raised"

\* ----------------------- Properties of both chunkers ----------------------

OnlyWhitespace(t) == \A i \in 1..Len(t) : t[i] \in Whitespace

\* chunk() has been called and has gone past its first test.
SentenceEntered == spc \in {"loop", "returned"}
CodeEntered == cpc \in {"parsed", "grouped", "texts", "raised", "returned"}

\* C10 -- degenerate input: for an empty string or a string made only of
\* whitespace, SentenceChunker.chunk and CodeChunker.chunk both return an
\* empty list, without calling the tokenizer or the parser and without
\* raising.
C10_DegenerateInput ==
    /\ (SentenceEntered /\ OnlyWhitespace(text)) =>
          /\ spc = "returned"
          /\ chunks = <<>>
          /\ tokenizer_calls = 0
    /\ (CodeEntered /\ OnlyWhitespace(code_text)) =>
          /\ cpc = "returned"
          /\ code_result = <<>>
          /\ parser_calls = 0
          /\ count_tokens_calls = 0

\* CodeChunker.chunk has returned for a text of blanks.
C10_Witness ==
    /\ cpc = "returned"
    /\ code_text # <<>>
    /\ OnlyWhitespace(code_text)
    /\ code_result = <<>>
    /\ parser_calls = 0

-----------------------------------------------------------------------------
\* --------------------- Properties of the constructors --------------------

\* The arguments the specification calls invalid for SentenceChunker.
InvalidSentenceArgs(a) ==
    \/ a.chunk_size <= 0
    \/ a.chunk_overlap >= a.chunk_size
    \/ a.min_sentences_per_chunk < 1
    \/ a.min_characters_per_sentence < 1
    \/ a.include_delim \notin {"prev", "next", "None"}
    \/ a.return_type \notin {"chunks", "texts"}

C12_CodeFailFast ==
    code_chunker # <<>> =>
        /\ code_chunker.chunk_size > 0
        /\ code_chunker.return_type \in {"chunks", "texts"}

\* C13 -- a SentenceChunker given an empty delimiter list, or None, is
\* rejected with a configuration error: no chunker exists, and _split_text
\* never runs, with zero delimiters.
C13_DelimiterRequired ==
    sentence_chunker # <<>> => sentence_chunker.delim # <<>>

-----------------------------------------------------------------------------
\* ------------------ Properties of the sentence packer --------------------

\* The loop of chunk() has been entered.
InLoop == spc \in {"loop", "returned"} /\ sentences # <<>>

\* The token counts of sentences p..q-1.
SpanTokens(p, q) == token_sums[q + 1] - token_sums[p + 1]

\* The largest split after p whose sentences cost at most chunk_size, or
\* p + 1 when the sentence at p alone costs more.
LargestFit(p) ==
    LET fits == {q \in (p + 1)..Len(sentences) :
                    SpanTokens(p, q) <= sentence_chunker.chunk_size}
    IN IF fits = {} THEN p + 1
       ELSE CHOOSE q \in fits : \A r \in fits : r <= q

\* C14 -- sentence packer maximality: with min_sentences_per_chunk = 1, every
\* emitted chunk [pos, split_idx) uses the largest split_idx whose sentences
\* sum to at most chunk_size (a sum equal to chunk_size is accepted), and at
\* least one sentence is taken.
C14_Maximality ==
    (InLoop /\ sentence_chunker.min_sentences_per_chunk = 1) =>
        \A k \in 1..Len(spans) : spans[k][2] = LargestFit(spans[k][1])

\* The cursor after the k-th emitted chunk.
CursorAfter(k) == IF k < Len(spans) THEN spans[k + 1][1] ELSE pos

\* The cost the overlap walk gives sentences j..q-1: token_count + 1 each.
TailCost(j, q) == SpanTokens(j, q) + (q - j)

\* The first sentence of the longest run j..q-1, j >= lo, that costs at most
\* chunk_overlap (q itself when no sentence fits).
LongestTail(lo, q) ==
    CHOOSE j \in lo..q :
        /\ TailCost(j, q) <= sentence_chunker.chunk_overlap
        /\ \A i \in lo..q :
              TailCost(i, q) <= sentence_chunker.chunk_overlap => j <= i

\* The emitted chunks that the overlap walk follows.
Walked(k) ==
    /\ sentence_chunker.chunk_overlap > 0
    /\ spans[k][2] < Len(sentences)

\* C16 as stated: the next cursor is the first sentence of the longest run
\* at the tail of the emitted chunk that costs at most chunk_overlap, any
\* sentence of the chunk included.
C16_OverlapWalkWholeChunk ==
    InLoop =>
        \A k \in 1..Len(spans) :
            Walked(k) => CursorAfter(k) = LongestTail(spans[k][1], spans[k][2])

\* C16 -- overlap walk, amended: when chunk_overlap > 0 and sentences remain
\* after the emitted chunk [pos, split_idx), the next cursor is the first
\* sentence of the longest run of whole sentences at the tail of the chunk,
\* the chunk's first sentence excluded, whose cost (token_count + 1 per
\* sentence) does not exceed chunk_overlap, or split_idx when there is none;
\* the next chunk repeats exactly that run.
C16_OverlapWalk ==
    InLoop =>
        \A k \in 1..Len(spans) :
            Walked(k) =>
                /\ CursorAfter(k) = LongestTail(spans[k][1] + 1, spans[k][2])
                /\ k < Len(spans) => spans[k + 1][2] >= spans[k][2]

\* The walk has moved the cursor back and the next chunk has been emitted.
C16_Witness ==
    /\ spc = "returned"
    /\ sentences # <<>>
    /\ \E k \in 1..(Len(spans) - 1) :
          /\ Walked(k)
          /\ spans[k + 1][1] < spans[k][2]
          /\ spans[k + 1][2] > spans[k][2]

\* C17 -- termination of the sentence packer: the cursor pos strictly
\* increases on every iteration of the loop of chunk(), also when the overlap
\* moves it back from split_idx, and never passes the number of sentences; so
\* there is at most one iteration per sentence, the loop ends with pos equal
\* to the number of sentences, and the last chunk ends with the last sentence.
C17_Termination ==
    InLoop =>
        /\ pos <= Len(sentences)
        /\ \A k \in 1..Len(spans) :
              /\ spans[k][1] < CursorAfter(k)
              /\ CursorAfter(k) <= spans[k][2]
        /\ Len(spans) <= Len(sentences)
        /\ spc = "returned" =>
              /\ pos = Len(sentences)
              /\ spans # <<>>
              /\ spans[Len(spans)][2] = Len(sentences)

\* The loop has ended after one iteration per sentence, one of which moved
\* the cursor back from split_idx.
C17_Witness ==
    /\ spc = "returned"
    /\ Len(sentences) >= 3
    /\ Len(spans) = Len(sentences)
    /\ \E k \in 1..(Len(spans) - 1) : spans[k + 1][1] < spans[k][2]

\* Fewer than min_sentences_per_chunk sentences remained at the cursor of
\* the k-th iteration.
Unmet(k) ==
    Len(sentences) - spans[k][1] < sentence_chunker.min_sentences_per_chunk

\* C19 -- unmet minimum: whenever fewer than min_sentences_per_chunk
\* sentences remain at the cursor, chunk() emits one final chunk holding all
\* the remaining sentences, raises the unmet-minimum warning and the loop
\* ends; the warning is raised in no other situation.
C19_UnmetMinimum ==
    InLoop =>
        /\ \A k \in 1..Len(spans) :
              Unmet(k) =>
                  /\ k = Len(spans)
                  /\ spans[k][2] = Len(sentences)
                  /\ pos = Len(sentences)
        /\ unmet_warnings = Cardinality({k \in 1..Len(spans) : Unmet(k)})

\* With a minimum of two, a chunk has been emitted and one sentence was left
\* for the final chunk.
C19_Witness ==
    /\ spc = "returned"
    /\ sentence_chunker.min_sentences_per_chunk = 2
    /\ unmet_warnings = 1
    /\ Len(spans) >= 2
    /\ spans[Len(spans)][2] - spans[Len(spans)][1] = 1

-----------------------------------------------------------------------------
\* ------------------ Properties of the text reconstruction ----------------

\* C18 -- in _get_texts_from_node_groups a group whose start_byte is greater
\* than its end_byte, or whose span falls outside the buffer, is skipped
\* without a hard failure: the call returns whichever groups are invalid,
\* the first, the last or every one of them.
C18_InvalidSkipped == TextsCalled => cpc = "texts_done"

-----------------------------------------------------------------------------
\* ---------------- Properties of the pass-2 coalescing --------------------

\* What pass 1 gives for the root, its prefix sums and the runs of pass 2.
RootPass1 == Pass1(code_chunker, root_node)
RootCum == Accumulate(RootPass1.token_counts, 0)
RootRuns == Pass2Runs(code_chunker, RootPass1.node_groups, RootCum, 0)

\* The farthest boundary after pass-1 group p whose summed counts stay within
\* chunk_size, or p + 1 when group p alone does not.
FarthestFit(p) ==
    LET fits == {q \in (p + 1)..Len(RootPass1.node_groups) :
                    RootCum[q + 1] - RootCum[p + 1] <= code_chunker.chunk_size}
    IN IF fits = {} THEN p + 1
       ELSE CHOOSE q \in fits : \A r \in fits : r <= q

\* C15 -- pass-2 maximality: from each unmerged pass-1 group the merged run
\* extends to the farthest boundary whose summed pass-1 counts stay within
\* chunk_size (a sum equal to chunk_size is within budget).
C15_Maximality ==
    GroupCalled =>
        \A k \in 1..Len(RootRuns) : RootRuns[k][2] = FarthestFit(RootRuns[k][1])

\* The ids of a node sequence.
Ids(nodes) == [j \in 1..Len(nodes) |-> nodes[j].id]

\* C20 -- pass 2 partitions the pass-1 groups into consecutive non-empty
\* runs: every merged group is the concatenation of the pass-1 groups of its
\* run, the merged groups flattened in order are the pass-1 groups flattened
\* (no node lost, duplicated or reordered), and the reported count of a
\* merged group is the sum of the pass-1 counts of its run.
C20_Partition ==
    GroupCalled =>
        LET runs == RootRuns
            pass1 == RootPass1
            ids == Ids(Flatten(node_groups))
        IN /\ Len(node_groups) = Len(runs)
           /\ Len(token_counts) = Len(runs)
           /\ runs # <<>> =>
                 /\ runs[1][1] = 0
                 /\ runs[Len(runs)][2] = Len(pass1.node_groups)
           /\ runs = <<>> => pass1.node_groups = <<>>
           /\ \A k \in 1..Len(runs) :
                 /\ runs[k][1] < runs[k][2]
                 /\ k < Len(runs) => runs[k + 1][1] = runs[k][2]
                 /\ node_groups[k] =
                       Flatten(Slice(pass1.node_groups, runs[k][1], runs[k][2]))
                 /\ token_counts[k] =
                       SumSeq(Slice(pass1.token_counts, runs[k][1], runs[k][2]))
           /\ Flatten(node_groups) = Flatten(pass1.node_groups)
           /\ \A i, j \in 1..Len(ids) : ids[i] = ids[j] => i = j

\* Pass 2 has made several runs, one of them of two pass-1 groups or more.
C20_Witness ==
    /\ GroupCalled
    /\ Len(RootRuns) >= 2
    /\ \E k \in 1..Len(RootRuns) : RootRuns[k][2] - RootRuns[k][1] >= 2

-----------------------------------------------------------------------------
\* --------------------- Properties of _split_text -------------------------

SplitCalled == spc = "split_done"

\* C21 -- Sentence splitter merge rule: whatever the fragments of the
\* initial split are, every sentence _split_text returns, except possibly
\* the last, has at least min_characters_per_sentence characters; no
\* returned sentence is empty; and the returned sentences concatenated in
\* order are the non-empty fragments concatenated in order.
C21_MergeRule ==
    SplitCalled =>
        LET min_chars == sentence_chunker.min_characters_per_sentence
            n == Len(split_sentences)
        IN /\ \A i \in 1..(n - 1) : Len(split_sentences[i]) >= min_chars
           /\ \A i \in 1..n : split_sentences[i] # <<>>
           /\ Flatten(split_sentences) = Flatten(initial_splits)

\* Short fragments were merged into a sentence that reached the minimum,
\* and a short buffer was left over and returned last.
C21_Witness ==
    /\ SplitCalled
    /\ Len(split_sentences) >= 2
    /\ Len(initial_splits) > Len(split_sentences)
    /\ Len(initial_splits[1]) < sentence_chunker.min_characters_per_sentence
    /\ Len(split_sentences[Len(split_sentences)])
          < sentence_chunker.min_characters_per_sentence

-----------------------------------------------------------------------------
\* ------------------ Properties of successive chunks ----------------------

\* The sentence indices of the k-th emitted chunk.
SpanSentences(k) == {i \in 0..Len(sentences) : spans[k][1] <= i /\ i < spans[k][2]}

\* C22 -- Implicit: with chunk_overlap > 0, every chunk after the first
\* holds at least one sentence its predecessor does not hold, and the
\* exclusive end sentence index of successive chunks strictly increases,
\* so that no chunk lies wholly inside the chunk before it.
C22_NoContainedChunk ==
    (spc \in {"loop", "returned"} /\ sentence_chunker.chunk_overlap > 0) =>
        \A k \in 2..Len(spans) :
            /\ SpanSentences(k) \ SpanSentences(k - 1) # {}
            /\ spans[k][2] > spans[k - 1][2]

-----------------------------------------------------------------------------
\* ---------------------------- Specifications -----------------------------

\* Nothing is constructed yet.
Init ==
    /\ sentence_args = <<>>
    /\ sentence_chunker = <<>>
    /\ spc = "new"
    /\ text = <<>>
    /\ sentences = <<>>
    /\ token_sums = <<>>
    /\ chunks = <<>>
    /\ pos = 0
    /\ spans = <<>>
    /\ unmet_warnings = 0
    /\ tokenizer_calls = 0
    /\ code_chunker = <<>>
    /\ cpc = "new"
    /\ code_text = <<>>
    /\ original_text_bytes = <<>>
    /\ root_node = <<>>
    /\ node_groups = <<>>
    /\ token_counts = <<>>
    /\ texts = <<>>
    /\ code_result = <<>>
    /\ parser_calls = 0
    /\ count_tokens_calls = 0
    /\ initial_splits = <<>>
    /\ split_sentences = <<>>

\* The SentenceChunker: construction, then one call of chunk().
SpecSentence == Init /\ [][SNext]_vars

\* The CodeChunker: construction, then one call of chunk().
SpecCode == Init /\ [][CNext]_vars

\* Both chunkers.
Next == SNext \/ CNext

Spec == Init /\ [][Next]_vars

\* The packing loop of SentenceChunker.chunk on its own (lines 315-364): a
\* constructed chunker with the default delimiter handling, and the
\* sentences _prepare_sentences gives for a text "a.a. ..." of up to
\* MaxSentences sentences, with any token counts.
PackArgs ==
    {a \in [chunk_size : 1..MaxPackChunkSize,
            chunk_overlap : 0..MaxPackChunkSize,
            min_sentences_per_chunk : MinSentencesArgs,
            min_characters_per_sentence : {1},
            delim : {DelimList(<< <<".">> >>)},
            include_delim : {"prev"},
            return_type : {"chunks"}] :
        InitError(a) = "ok"}

InitPack ==
    /\ sentence_args \in PackArgs
    /\ sentence_chunker = InitAttrs(sentence_args)
    /\ spc = "loop"
    /\ \E n \in 1..MaxSentences :
          \E counts \in [1..n -> 0..MaxPackTok] :
             LET sentence_texts == [i \in 1..n |-> <<"a", ".">>]
             IN /\ text = Flatten(sentence_texts)
                /\ sentences = PrepareSentences(sentence_texts, counts)
                /\ token_sums = Accumulate(counts, 0)
    /\ chunks = <<>>
    /\ pos = 0
    /\ spans = <<>>
    /\ unmet_warnings = 0
    /\ tokenizer_calls = 1
    /\ code_chunker = <<>>
    /\ cpc = "new"
    /\ code_text = <<>>
    /\ original_text_bytes = <<>>
    /\ root_node = <<>>
    /\ node_groups = <<>>
    /\ token_counts = <<>>
    /\ texts = <<>>
    /\ code_result = <<>>
    /\ parser_calls = 0
    /\ count_tokens_calls = 0
    /\ initial_splits = <<>>
    /\ split_sentences = <<>>

PackNext ==
    \/ ChunkLoop
    \/ ChunkReturn

SpecPack == InitPack /\ [][PackNext]_vars

\* _group_child_nodes on its own: a chunker with a positive chunk_size and
\* any tree GroupTree gives.
InitGroup ==
    /\ sentence_args = <<>>
    /\ sentence_chunker = <<>>
    /\ spc = "new"
    /\ text = <<>>
    /\ sentences = <<>>
    /\ token_sums = <<>>
    /\ chunks = <<>>
    /\ pos = 0
    /\ spans = <<>>
    /\ unmet_warnings = 0
    /\ tokenizer_calls = 0
    /\ code_chunker \in [chunk_size : 1..MaxCodeChunkSize, return_type : {"chunks"}]
    /\ cpc = "group_call"
    /\ code_text = <<>>
    /\ original_text_bytes = <<>>
    /\ \E counts \in SeqsUpTo(0..MaxNodeTok, MaxKids) :
          \E inner \in 0..Len(counts) :
             \E gk \in GrandKidCounts(inner) :
                root_node = GroupTree(counts, inner, gk)
    /\ node_groups = <<>>
    /\ token_counts = <<>>
    /\ texts = <<>>
    /\ code_result = <<>>
    /\ parser_calls = 0
    /\ count_tokens_calls = 0
    /\ initial_splits = <<>>
    /\ split_sentences = <<>>

SpecGroup == InitGroup /\ [][GroupCall]_vars

\* _get_texts_from_node_groups on its own: any non-empty buffer and any
\* node groups of TextGroups.
InitTexts ==
    /\ sentence_args = <<>>
    /\ sentence_chunker = <<>>
    /\ spc = "new"
    /\ text = <<>>
    /\ sentences = <<>>
    /\ token_sums = <<>>
    /\ chunks = <<>>
    /\ pos = 0
    /\ spans = <<>>
    /\ unmet_warnings = 0
    /\ tokenizer_calls = 0
    /\ code_chunker = [chunk_size |-> MaxCodeChunkSize, return_type |-> "chunks"]
    /\ cpc = "texts_call"
    /\ \E t \in SeqsUpTo({"x", "E"}, MaxCodeLen) \ {<<>>} :
          /\ code_text = t
          /\ original_text_bytes = Encode(t)
          /\ \E g \in 1..MaxGroups :
                \E cut \in NonDecreasing(2 * g, 0, Len(t)),
                   kind \in [1..g -> {"ok", "reversed", "beyond"}],
                   two \in BOOLEAN :
                   node_groups = TextGroups(t, g, cut, kind, two)
    /\ root_node = <<>>
    /\ token_counts = <<>>
    /\ texts = <<>>
    /\ code_result = <<>>
    /\ parser_calls = 0
    /\ count_tokens_calls = 0
    /\ initial_splits = <<>>
    /\ split_sentences = <<>>

SpecTexts == InitTexts /\ [][TextsCall]_vars


-----------------------------------------------------------------------------
\* _split_text alone: a constructed chunker (every valid
\* min_characters_per_sentence and include_delim) and any text.
SplitArgs ==
    {a \in [chunk_size : {1},
            chunk_overlap : {0},
            min_sentences_per_chunk : {1},
            min_characters_per_sentence : 1..MaxMinChars,
            delim : {DelimList(<< <<".">> >>)},
            include_delim : {"prev", "next", "None"},
            return_type : {"chunks"}] :
        InitError(a) = "ok"}

InitSplit ==
    /\ sentence_args \in SplitArgs
    /\ sentence_chunker = InitAttrs(sentence_args)
    /\ spc = "split_call"
    /\ text \in SeqsUpTo(Alphabet, MaxSplitLen)
    /\ sentences = <<>>
    /\ token_sums = <<>>
    /\ chunks = <<>>
    /\ pos = 0
    /\ spans = <<>>
    /\ unmet_warnings = 0
    /\ tokenizer_calls = 0
    /\ code_chunker = <<>>
    /\ cpc = "new"
    /\ code_text = <<>>
    /\ original_text_bytes = <<>>
    /\ root_node = <<>>
    /\ node_groups = <<>>
    /\ token_counts = <<>>
    /\ texts = <<>>
    /\ code_result = <<>>
    /\ parser_calls = 0
    /\ count_tokens_calls = 0
    /\ initial_splits = <<>>
    /\ split_sentences = <<>>

SpecSplit == InitSplit /\ [][SplitTextCall]_vars

=============================================================================
